---- MODULE Spec2Model ----
(***************************************************************************)
(* Model of verification/verify_suggestions.py: a linear Playwright script *)
(* that opens verification/index.html, checks two attributes, captures a   *)
(* screenshot and turns any exception of the test into exit code 1.        *)
(*                                                                         *)
(* One run of the script is one behaviour.  The fixture page is chosen in  *)
(* Init; whether a browser operation returns or raises is chosen when the  *)
(* operation is performed.                                                 *)
(***************************************************************************)
EXTENDS Integers, Sequences, FiniteSets, TLC

\* Largest number of elements of one kind (elements with id
\* solutionsContainer, elements with role link) in the fixture page.
MaxElems == 2

----------------------------------------------------------------------------
\* Strings of the script.

NoAttr == "<absent>"            \* the element does not carry the attribute
ExpectedBusy == "false"
LinkName == "Inspect source code"
ExpectedLabel == "Inspect source code (opens in a new window)"
ScreenshotPath == "verification/verification.png"

\* Console lines.  The check-mark and cross prefixes of the script are
\* written "OK " and "FAIL Test failed: ".
PassMarker == "OK "
FailMarker == "FAIL Test failed: "
BusyLine == [marker |-> PassMarker, text |-> "Verified aria-busy is false"]
LabelLine == [marker |-> PassMarker, text |-> "Verified aria-label on link"]
ShotLine == [marker |-> PassMarker, text |-> "Screenshot captured"]
FailLine(e) == [marker |-> FailMarker, text |-> e]

\* The value of exitCode while the process is still running.
Running == -1

----------------------------------------------------------------------------
\* The fixture page.

BusyValues == {NoAttr, "false", "true"}
LabelValues == {NoAttr, ExpectedLabel, LinkName}
TextValues == {LinkName, "View source"}
LinkElems == [text : TextValues, label : LabelValues]

SeqsUpTo(S, n) == UNION {[1..k -> S] : k \in 0..n}

VARIABLES
    containers, \* aria-busy values of the elements with id solutionsContainer
    links,      \* the elements with role link: text content and aria-label
    pc,         \* position of the script
    exc,        \* exception in flight: "none", "SystemExit", or the step that raised
    browser,    \* "none", "open", "closed"
    page,       \* TRUE once browser.new_page() has returned
    out,        \* lines printed on standard output
    files,      \* paths written by the run
    exitCode,   \* Running, or the exit code of the process
    trace,      \* history: browser operations attempted, in order
    raised,     \* history: browser operations that raised
    faults      \* history: operations that raised for a reason other than the fixture

vars == <<containers, links, pc, exc, browser, page, out, files, exitCode,
          trace, raised, faults>>

fixture == <<containers, links>>

----------------------------------------------------------------------------
\* The two expectations.

\* Accessible name of a link: its aria-label, else its text content.
AccessibleName(l) == IF l.label # NoAttr THEN l.label ELSE l.text

\* get_by_role(..., name=LinkName) matches by case-insensitive substring;
\* of the names of the model these two contain LinkName.
NameMatches(s) == s \in {LinkName, ExpectedLabel}

\* page.locator("#solutionsContainer"): the aria-busy values of the matches.
LocateContainer == containers

\* page.get_by_role("link", name="Inspect source code"): the aria-label values.
LocateLink ==
    LET m == SelectSeq(links, LAMBDA l : NameMatches(AccessibleName(l)))
    IN  [i \in DOMAIN m |-> m[i].label]

\* expect(locator).to_have_attribute(name, value): the locator is strict
\* (exactly one element) and the attribute equals the value exactly.
ToHaveAttribute(vals, value) == Len(vals) = 1 /\ vals[1] = value

\* Variant: only a wrong value is rejected, a missing attribute is accepted.
BusyHolds_Lenient ==
    Len(LocateContainer) = 1 /\ LocateContainer[1] \in {ExpectedBusy, NoAttr}

BusyHolds == ToHaveAttribute(LocateContainer, ExpectedBusy)

\* Variant: the link is only required to exist, its aria-label is not compared.
LabelHolds_NameOnly == Len(LocateLink) = 1

LabelHolds == ToHaveAttribute(LocateLink, ExpectedLabel)

----------------------------------------------------------------------------
Init ==
    /\ containers \in SeqsUpTo(BusyValues, MaxElems)
    /\ links \in SeqsUpTo(LinkElems, MaxElems)
    /\ pc = "start"
    /\ exc = "none"
    /\ browser = "none"
    /\ page = FALSE
    /\ out = <<>>
    /\ files = {}
    /\ exitCode = Running
    /\ trace = <<>>
    /\ raised = {}
    /\ faults = {}

\* Bookkeeping of one attempted operation.
Attempt(step, ok, fault) ==
    /\ trace' = Append(trace, step)
    /\ raised' = IF ok THEN raised ELSE raised \cup {step}
    /\ faults' = IF fault THEN faults \cup {step} ELSE faults

\* line 24: with sync_playwright() as p  (entering the context)
Start ==
    /\ pc = "start"
    /\ \E ok \in BOOLEAN :
         /\ Attempt("start", ok, ~ok)
         /\ IF ok
            THEN pc' = "launch" /\ exc' = exc
            ELSE pc' = "exiting" /\ exc' = "start"
    /\ UNCHANGED <<fixture, browser, page, out, files, exitCode>>

\* Variant: the launch is inside the try block.
Launch_InTry ==
    /\ pc = "launch"
    /\ \E ok \in BOOLEAN :
         /\ Attempt("launch", ok, ~ok)
         /\ IF ok
            THEN pc' = "new_page" /\ exc' = exc /\ browser' = "open"
            ELSE pc' = "handler" /\ exc' = "launch" /\ browser' = browser
    /\ UNCHANGED <<fixture, page, out, files, exitCode>>

\* line 25: browser = p.chromium.launch(headless=True); outside the try
Launch ==
    /\ pc = "launch"
    /\ \E ok \in BOOLEAN :
         /\ Attempt("launch", ok, ~ok)
         /\ IF ok
            THEN pc' = "new_page" /\ exc' = exc /\ browser' = "open"
            ELSE pc' = "stop" /\ exc' = "launch" /\ browser' = browser
    /\ UNCHANGED <<fixture, page, out, files, exitCode>>

\* line 26: page = browser.new_page(); outside the try
NewPage ==
    /\ pc = "new_page"
    /\ \E ok \in BOOLEAN :
         /\ Attempt("new_page", ok, ~ok)
         /\ IF ok
            THEN pc' = "goto" /\ exc' = exc /\ page' = TRUE
            ELSE pc' = "stop" /\ exc' = "new_page" /\ page' = page
    /\ UNCHANGED <<fixture, browser, out, files, exitCode>>

\* lines 6-7: page.goto(file://...)
Goto ==
    /\ pc = "goto"
    /\ \E ok \in BOOLEAN :
         /\ Attempt("goto", ok, ~ok)
         /\ IF ok
            THEN pc' = "busy" /\ exc' = exc
            ELSE pc' = "handler" /\ exc' = "goto"
    /\ UNCHANGED <<fixture, browser, page, out, files, exitCode>>

\* Variant: a soft assertion, the failure is recorded and the test continues.
CheckBusy_Soft ==
    /\ pc = "busy"
    /\ \E crash \in BOOLEAN :
         LET ok == ~crash /\ BusyHolds IN
         /\ Attempt("busy", ok, crash)
         /\ out' = IF ok THEN Append(out, BusyLine) ELSE out
    /\ pc' = "label"
    /\ UNCHANGED <<fixture, exc, browser, page, files, exitCode>>

\* Variant: the success line is printed before the expectation is evaluated.
CheckBusy_PrintFirst ==
    /\ pc = "busy"
    /\ \E crash \in BOOLEAN :
         LET ok == ~crash /\ BusyHolds IN
         /\ Attempt("busy", ok, crash)
         /\ out' = Append(out, BusyLine)
         /\ IF ok
            THEN pc' = "label" /\ exc' = exc
            ELSE pc' = "handler" /\ exc' = "busy"
    /\ UNCHANGED <<fixture, browser, page, files, exitCode>>

\* lines 10-12: expect(#solutionsContainer).to_have_attribute("aria-busy", "false")
CheckBusy ==
    /\ pc = "busy"
    /\ \E crash \in BOOLEAN :
         LET ok == ~crash /\ BusyHolds IN
         /\ Attempt("busy", ok, crash)
         /\ IF ok
            THEN pc' = "label" /\ exc' = exc /\ out' = Append(out, BusyLine)
            ELSE pc' = "handler" /\ exc' = "busy" /\ out' = out
    /\ UNCHANGED <<fixture, browser, page, files, exitCode>>

\* Variant: a soft assertion, the screenshot is taken whatever the outcome.
CheckLabel_Soft ==
    /\ pc = "label"
    /\ \E crash \in BOOLEAN :
         LET ok == ~crash /\ LabelHolds IN
         /\ Attempt("label", ok, crash)
         /\ out' = IF ok THEN Append(out, LabelLine) ELSE out
    /\ pc' = "screenshot"
    /\ UNCHANGED <<fixture, exc, browser, page, files, exitCode>>

\* lines 15-17: expect(link).to_have_attribute("aria-label", ...)
CheckLabel ==
    /\ pc = "label"
    /\ \E crash \in BOOLEAN :
         LET ok == ~crash /\ LabelHolds IN
         /\ Attempt("label", ok, crash)
         /\ IF ok
            THEN pc' = "screenshot" /\ exc' = exc /\ out' = Append(out, LabelLine)
            ELSE pc' = "handler" /\ exc' = "label" /\ out' = out
    /\ UNCHANGED <<fixture, browser, page, files, exitCode>>

\* Variant: the screenshot is written next to the script, not under verification/.
Screenshot_WrongPath ==
    /\ pc = "screenshot"
    /\ \E ok \in BOOLEAN :
         /\ Attempt("screenshot", ok, ~ok)
         /\ IF ok
            THEN /\ pc' = "close"
                 /\ exc' = exc
                 /\ files' = files \cup {"verification.png"}
                 /\ out' = Append(out, ShotLine)
            ELSE /\ pc' = "handler"
                 /\ exc' = "screenshot"
                 /\ files' = files
                 /\ out' = out
    /\ UNCHANGED <<fixture, browser, page, exitCode>>

\* lines 20-21: page.screenshot(path=...); the try block ends normally after it
Screenshot ==
    /\ pc = "screenshot"
    /\ \E ok \in BOOLEAN :
         /\ Attempt("screenshot", ok, ~ok)
         /\ IF ok
            THEN /\ pc' = "close"
                 /\ exc' = exc
                 /\ files' = files \cup {ScreenshotPath}
                 /\ out' = Append(out, ShotLine)
            ELSE /\ pc' = "handler"
                 /\ exc' = "screenshot"
                 /\ files' = files
                 /\ out' = out
    /\ UNCHANGED <<fixture, browser, page, exitCode>>

\* Variant: the handler prints the failure and forgets exit(1).
Handler_NoExit ==
    /\ pc = "handler"
    /\ out' = Append(out, FailLine(exc))
    /\ exc' = "none"
    /\ pc' = "close"
    /\ UNCHANGED <<fixture, browser, page, files, exitCode, trace, raised, faults>>

\* Variant: the handler ends the process at once (os._exit), the finally
\* block does not run.
Handler_HardExit ==
    /\ pc = "handler"
    /\ out' = Append(out, FailLine(exc))
    /\ exc' = "SystemExit"
    /\ pc' = "exiting"
    /\ UNCHANGED <<fixture, browser, page, files, exitCode, trace, raised, faults>>

\* Variant: the handler retries the test instead of leaving.
Handler_Retry ==
    /\ pc = "handler"
    /\ out' = Append(out, FailLine(exc))
    /\ exc' = "none"
    /\ pc' = "goto"
    /\ UNCHANGED <<fixture, browser, page, files, exitCode, trace, raised, faults>>

\* lines 29-31: except Exception as e: print the failure, exit(1).
\* exit(1) raises SystemExit, which leaves through the finally block.
Handler ==
    /\ pc = "handler"
    /\ out' = Append(out, FailLine(exc))
    /\ exc' = "SystemExit"
    /\ pc' = "close"
    /\ UNCHANGED <<fixture, browser, page, files, exitCode, trace, raised, faults>>

\* lines 32-33: finally: browser.close().  An exception raised here replaces
\* the one in flight.
Close ==
    /\ pc = "close"
    /\ \E ok \in BOOLEAN :
         /\ Attempt("close", ok, ~ok)
         /\ IF ok
            THEN browser' = "closed" /\ exc' = exc
            ELSE browser' = browser /\ exc' = "close"
    /\ pc' = "stop"
    /\ UNCHANGED <<fixture, page, out, files, exitCode>>

\* line 24: leaving the with block (the context manager's __exit__); it does
\* not suppress the exception in flight.
Stop ==
    /\ pc = "stop"
    /\ \E ok \in BOOLEAN :
         /\ Attempt("stop", ok, ~ok)
         /\ exc' = IF ok THEN exc ELSE "stop"
    /\ pc' = "exiting"
    /\ UNCHANGED <<fixture, browser, page, out, files, exitCode>>

\* End of the script: code 0 when nothing is in flight, code 1 for
\* SystemExit(1) and for an uncaught exception.
Exit ==
    /\ pc = "exiting"
    /\ exitCode' = IF exc = "none" THEN 0 ELSE 1
    /\ pc' = "exited"
    /\ UNCHANGED <<fixture, exc, browser, page, out, files, trace, raised, faults>>

Next ==
    \/ Start
    \/ Launch
    \/ NewPage
    \/ Goto
    \/ CheckBusy
    \/ CheckLabel
    \/ Screenshot
    \/ Handler
    \/ Close
    \/ Stop
    \/ Exit

Spec == Init /\ [][Next]_vars

\* The script is one synchronous thread: a step that can be taken is taken.
FairSpec == Spec /\ WF_vars(Next)

----------------------------------------------------------------------------
\* Vocabulary of the properties.

Done == pc = "exited"

Range(s) == {s[i] : i \in DOMAIN s}

\* The operations in program order.
StepOrder == <<"start", "launch", "new_page", "goto", "busy", "label",
               "screenshot", "close", "stop">>

Rank(step) == CHOOSE i \in DOMAIN StepOrder : StepOrder[i] = step

\* The operations inside the try block.
TestSteps == {"goto", "busy", "label", "screenshot"}

Attempted(step) == step \in Range(trace)

Completed(step) == Attempted(step) /\ step \notin raised

Count(step) == Cardinality({i \in DOMAIN trace : trace[i] = step})

FailLines == SelectSeq(out, LAMBDA l : l.marker = FailMarker)

SuccessLines == <<BusyLine, LabelLine, ShotLine>>

\* The fixture as the claims describe it, stated on the page itself.
MatchingLinks == {i \in DOMAIN links : NameMatches(AccessibleName(links[i]))}

BusyCorrect == Len(containers) = 1 /\ containers[1] = "false"

LabelCorrect ==
    /\ Cardinality(MatchingLinks) = 1
    /\ \A i \in MatchingLinks : links[i].label = ExpectedLabel

CorrectFixture == BusyCorrect /\ LabelCorrect

\* No element carries the attribute at all.
BusyMissing == \A i \in DOMAIN containers : containers[i] = NoAttr

LabelMissing == \A i \in DOMAIN links : links[i].label = NoAttr

\* The test function returned normally / raised.
TestPassed == Completed("screenshot")

TestFailed == raised \cap TestSteps # {}

----------------------------------------------------------------------------
\* C1 as stated: at exit, the code is 0 when launch, page open, navigation,
\* both checks and the screenshot all completed without raising, and 1 when
\* one of them raised.
C1_Original ==
    Done =>
      /\ (\A s \in {"launch", "new_page"} \cup TestSteps : Completed(s))
            => exitCode = 0
      /\ (raised \cap ({"launch", "new_page"} \cup TestSteps) # {})
            => exitCode = 1

\* C1 amended: the exit code is 0 exactly when no operation of the run
\* raised, browser.close() and the teardown of the Playwright context
\* included, and 1 when any operation raised.
C1_ExitCode ==
    Done => IF raised = {} THEN exitCode = 0 ELSE exitCode = 1

C1_Witness == Done /\ raised = {"screenshot"} /\ exitCode = 1

\* C2 as stated: a failure inside the test is printed with the failure
\* marker and exits non-zero, and every run against a fixture that lacks
\* aria-busy or aria-label prints the marker and exits non-zero.
C2_Original ==
    Done =>
      /\ TestFailed => (Len(FailLines) = 1 /\ exitCode # 0)
      /\ (BusyMissing \/ LabelMissing) => (Len(FailLines) = 1 /\ exitCode # 0)

\* C2 amended: the same, for the runs in which the page was opened (the
\* Playwright context was entered, the browser launched and new_page
\* returned); a run that fails before that exits non-zero without the marker.
C2_Handler ==
    Done =>
      /\ TestFailed => (Len(FailLines) = 1 /\ exitCode # 0)
      /\ (BusyMissing \/ LabelMissing) =>
            /\ exitCode # 0
            /\ page => (Len(FailLines) = 1 /\ out[Len(out)].marker = FailMarker)

C2_Witness ==
    /\ Done /\ page /\ ~BusyMissing /\ LabelMissing /\ Completed("busy")
    /\ out = <<BusyLine, FailLine("label")>> /\ exitCode = 1

\* C3: against a correct fixture, when no browser operation fails, the run
\* exits with code 0 and the screenshot is at verification/verification.png.
C3_CorrectFixture ==
    (Done /\ CorrectFixture /\ faults = {}) =>
        (exitCode = 0 /\ ScreenshotPath \in files)

C3_Witness ==
    /\ Done /\ CorrectFixture /\ faults = {} /\ Len(links) = MaxElems
    /\ exitCode = 0 /\ files = {ScreenshotPath}

\* C4: exit code 0 only if both checks ran and held: exactly one
\* #solutionsContainer with aria-busy "false" and exactly one matching link
\* with the expected aria-label; any other value, or none, never exits 0.
C4_ExitZeroOnlyIfChecksHeld ==
    (Done /\ exitCode = 0) =>
        (CorrectFixture /\ Completed("busy") /\ Completed("label"))

C4_Witness ==
    /\ Done /\ exitCode = 0 /\ Completed("busy") /\ Completed("label")
    /\ containers = <<"false">> /\ Cardinality(MatchingLinks) = 1

\* C5: the operations happen in program order, and the screenshot exists
\* only after navigation and both checks succeeded.
C5_Order ==
    /\ \A i, j \in DOMAIN trace : i < j => Rank(trace[i]) < Rank(trace[j])
    /\ Attempted("screenshot") =>
          (Completed("goto") /\ Completed("busy") /\ Completed("label"))
    /\ ScreenshotPath \in files =>
          (Completed("goto") /\ Completed("busy") /\ Completed("label"))
    /\ (raised \cap {"goto", "busy", "label"} # {}) => files = {}
    /\ Attempted("close") => (TestPassed \/ TestFailed)

C5_Witness ==
    /\ Done /\ files = {ScreenshotPath}
    /\ trace = <<"start", "launch", "new_page", "goto", "busy", "label",
                 "screenshot", "close", "stop">>

\* C6: no retry and no continuation: every operation is attempted at most
\* once, nothing of the test is attempted after one of its steps raised, at
\* most one failure is reported, and with both attributes wrong it is the
\* aria-busy one.
C6_NoRetry ==
    /\ \A s \in Range(StepOrder) : Count(s) <= 1
    /\ \A i, j \in DOMAIN trace :
          (i < j /\ trace[i] \in raised) => trace[j] \notin TestSteps
    /\ Len(FailLines) <= 1
    /\ (Done /\ Completed("goto") /\ ~BusyCorrect /\ ~LabelCorrect) =>
          (FailLines = <<FailLine("busy")>> /\ ~Attempted("label"))

C6_Witness ==
    /\ Done /\ Completed("goto") /\ ~BusyCorrect /\ ~LabelCorrect
    /\ faults = {} /\ FailLines = <<FailLine("busy")>>

\* The lines a finished run has printed when the test function ran.
LinesBefore(step) ==
    SelectSeq(SuccessLines,
              LAMBDA l : \/ l = BusyLine /\ Rank("busy") < Rank(step)
                         \/ l = LabelLine /\ Rank("label") < Rank(step)
                         \/ l = ShotLine /\ Rank("screenshot") < Rank(step))

FirstRaised == trace[CHOOSE i \in DOMAIN trace :
                       /\ trace[i] \in raised
                       /\ \A j \in DOMAIN trace : trace[j] \in raised => i <= j]

\* A success line is printed only after its own step succeeded, and the
\* lines printed so far are success lines in order, then at most one failure.
OutputShape ==
    /\ BusyLine \in Range(out) => Completed("busy")
    /\ LabelLine \in Range(out) => Completed("label")
    /\ ShotLine \in Range(out) => Completed("screenshot")
    /\ \E k \in 0..Len(SuccessLines) :
          \/ out = SubSeq(SuccessLines, 1, k)
          \/ \E s \in TestSteps : out = SubSeq(SuccessLines, 1, k) \o <<FailLine(s)>>

\* C7 as stated: a run that fails at some step prints the success lines of
\* the steps before it and then exactly one failure message.
C7_Original ==
    /\ OutputShape
    /\ (Done /\ TestPassed) => out = SuccessLines
    /\ (Done /\ raised # {}) =>
          out = LinesBefore(FirstRaised) \o <<FailLine(FirstRaised)>>

\* C7 amended: that holds for a run that fails at navigation, at a check or
\* at the screenshot; a run that fails before the page is open prints
\* nothing, and a failure of browser.close() or of the teardown adds no line.
C7_Output ==
    /\ OutputShape
    /\ (Done /\ TestPassed) => out = SuccessLines
    /\ (Done /\ TestFailed) =>
          out = LinesBefore(FirstRaised) \o <<FailLine(FirstRaised)>>
    /\ (Done /\ ~TestPassed /\ ~TestFailed) => out = <<>>

C7_Witness ==
    /\ Done /\ raised = {"label"} /\ faults = {"label"}
    /\ out = <<BusyLine, FailLine("label")>>

\* C8 as stated: once the page is open the browser is closed exactly once
\* before the process exits, and closing leaves the exit code as the test
\* decided it: 1 after a failure, 0 after success.
C8_Original ==
    /\ (pc \in {"stop", "exiting", "exited"} /\ page) => Count("close") = 1
    /\ (Done /\ page) => exitCode = (IF TestFailed THEN 1 ELSE 0)

\* C8 amended: once the page is open browser.close() is called exactly once,
\* after the handler and before the process exits, on both paths; when
\* close() and the teardown return normally the exit code is the test's
\* (1 after a failure, 0 after success), and when one of them raises it is 1.
C8_CloseOnce ==
    /\ (pc \in {"stop", "exiting", "exited"} /\ page) => Count("close") = 1
    /\ (pc \in {"start", "launch", "new_page"} \cup TestSteps \cup {"handler", "close"})
          => Count("close") = 0
    /\ (Done /\ page /\ Completed("close") /\ Completed("stop")) =>
          /\ browser = "closed"
          /\ exitCode = (IF TestFailed THEN 1 ELSE 0)
    /\ (Done /\ page /\ raised \cap {"close", "stop"} # {}) => exitCode = 1

C8_Witness ==
    /\ Done /\ page /\ TestFailed /\ Len(FailLines) = 1
    /\ Completed("close") /\ browser = "closed" /\ exitCode = 1

\* C9: a failure of the launch or of opening the page is outside the handler:
\* no failure marker is printed, browser.close() is not executed, and none of
\* navigation, the checks or the screenshot is attempted.
C9_OutsideHandler ==
    (raised \cap {"launch", "new_page"} # {}) =>
        /\ out = <<>>
        /\ ~Attempted("close")
        /\ \A s \in TestSteps : ~Attempted(s)
        /\ pc \in {"stop", "exiting", "exited"}
        /\ Done => exitCode = 1

C9_Witness ==
    /\ Done /\ raised = {"new_page"} /\ browser = "open"
    /\ out = <<>> /\ exitCode = 1

\* C10: every run reaches process exit with code 0 or 1, after at most one
\* attempt of each operation.
C10_Terminates ==
    /\ <>(Done /\ exitCode \in {0, 1})
    /\ [](Len(trace) <= Len(StepOrder))
    /\ [][Len(trace') >= Len(trace) /\ (pc = "exited" => pc' = "exited")]_vars

C10_Witness == Done /\ exitCode = 0 /\ Len(trace) = Len(StepOrder)

====
